---- MODULE Spec2Model ----
(***************************************************************************)
(* Model of src/RuleBasedPCG.cpp: the cellular-automata smoother, the      *)
(* drunk-agent carver and the driver loop (main) that alternates them.     *)
(*                                                                         *)
(* The file holds two programs one after the other (lines 1-222 and        *)
(* 223-448).  `variant` says which of the two is running: 1 is the program *)
(* whose cellularAutomata writes into a copy and whose main draws the      *)
(* agent parameters each iteration; 2 is the program whose                 *)
(* cellularAutomata writes into currentMap and whose main uses fixed       *)
(* agent parameters.                                                       *)
(*                                                                         *)
(* Probabilities are fixed-point numbers in units of 1/ProbDen; the        *)
(* threshold U is the rational U.num / U.den.                              *)
(***************************************************************************)
EXTENDS Integers, FiniteSets, Sequences, TLC

\* ------------------------------------------------------------------ bounds
mapRows == 2          \* H (10 in main, scaled down)
mapCols == 3          \* W (20 in main, scaled down)
numIterations == 2    \* 5 in main, scaled down
MaxJ == 2             \* largest walk count drawn
MaxI == 2             \* largest steps-per-walk drawn
MaxRoom == 2          \* largest room size drawn
MaxR == 1             \* largest radius given to cellularAutomata
ProbDen == 4          \* probabilities are k / ProbDen

VARIABLES
    H, W                \* the height and width every call is given

Rows == 0 .. (H - 1)
Cols == 0 .. (W - 1)
Cells == Rows \X Cols

\* using Map = std::vector<std::vector<int>>, cells 0 or 1
Map == [Rows -> [Cols -> {0, 1}]]

ZeroMap == [x \in Rows |-> [y \in Cols |-> 0]]

max(a, b) == IF a >= b THEN a ELSE b
min(a, b) == IF a <= b THEN a ELSE b

\* ------------------------------------------------------- cellularAutomata
\* the window positions (ni, nj) the two inner loops visit for cell (ci, cj)
Window(ci, cj, R) ==
    { <<ci + di, cj + dj>> : di \in (0 - R) .. R, dj \in (0 - R) .. R }

\* the guard of line 48 / 272
InBounds(ni, nj) == ni >= 0 /\ ni < H /\ nj >= 0 /\ nj < W

\* the positions at which the map is actually read
ReadCells(ci, cj, R) == { p \in Window(ci, cj, R) : InBounds(p[1], p[2]) }

\* the inner loop over dj for the window row ni: the in-bounds cells added up
RECURSIVE RowSum(_, _, _, _, _)
RowSum(m, ni, cj, dj, R) ==
    IF dj > R THEN 0
    ELSE (IF InBounds(ni, cj + dj) THEN m[ni][cj + dj] ELSE 0)
         + RowSum(m, ni, cj, dj + 1, R)

\* the outer loop over di
RECURSIVE WindowSum(_, _, _, _, _)
WindowSum(m, ci, cj, di, R) ==
    IF di > R THEN 0
    ELSE RowSum(m, ci + di, cj, 0 - R, R) + WindowSum(m, ci, cj, di + 1, R)

\* the window positions outside the map counted as ones
countOnesPadded(m, ci, cj, R) ==
    WindowSum(m, ci, cj, 0 - R, R)
      + Cardinality(Window(ci, cj, R) \ ReadCells(ci, cj, R))

\* countOnes after the two inner loops
countOnes(m, ci, cj, R) == WindowSum(m, ci, cj, 0 - R, R)

\* the rule with >= for >
RatioAtLeast(cnt, R, U) == cnt * U.den >= U.num * ((2 * R + 1) * (2 * R + 1))

\* neighborRatio > U, with neighborRatio = countOnes / ((2R+1)*(2R+1))
RatioAbove(cnt, R, U) == cnt * U.den > U.num * ((2 * R + 1) * (2 * R + 1))

\* a rule that consults the generator: with an odd seed a cell with any
\* one in its window becomes 1
CellValueSeeded(m, ci, cj, R, U, seed) ==
    IF seed % 2 = 1 /\ countOnes(m, ci, cj, R) > 0
    THEN 1
    ELSE IF RatioAbove(countOnes(m, ci, cj, R), R, U) THEN 1 ELSE 0

\* the count written to the cell in place of the rule's 0 or 1
CellRuleCount(m, ci, cj, R, U) == countOnes(m, ci, cj, R)

\* the value of line 55: (neighborRatio > U) ? 1 : 0
CellRule(m, ci, cj, R, U) ==
    IF RatioAbove(countOnes(m, ci, cj, R), R, U) THEN 1 ELSE 0

\* the cell value computed with gen(seed) and distProb in scope (lines
\* 36-38): neither is used between their construction and the return
CellValue(m, ci, cj, R, U, seed) == CellRule(m, ci, cj, R, U)

\* the values system_clock::now() can seed the generator with (line 36)
Seeds == {0, 1}

\* ------------------------------------------------------------- drunkAgent
\* directions = {{-1,0},{1,0},{0,-1},{0,1}}, indexed 0..3
directions == [d \in 0 .. 3 |->
                 CASE d = 0 -> <<0 - 1, 0>>
                   [] d = 1 -> <<1, 0>>
                   [] d = 2 -> <<0, 0 - 1>>
                   [] d = 3 -> <<0, 1>>]

\* distDirection(0, 3)
distDirection == 0 .. 3

\* a roll that can be 1.0
distProbClosed == 0 .. ProbDen

\* distProb(0.0, 1.0): a roll in [0, 1), in units of 1/ProbDen
distProb == 0 .. (ProbDen - 1)

\* the room loops with < for <=: the last row and column are left out
RoomCellsOpenEnd(ax, ay, roomSizeX, roomSizeY) ==
    LET halfX  == roomSizeX \div 2
        halfY  == roomSizeY \div 2
        startX == max(0, ax - halfX)
        endX   == min(H - 1, ax + halfX)
        startY == max(0, ay - halfY)
        endY   == min(W - 1, ay + halfY)
    IN  { <<x, y>> : x \in startX .. (endX - 1), y \in startY .. (endY - 1) }

\* the room loops with the two half sizes exchanged
RoomCellsSwapped(ax, ay, roomSizeX, roomSizeY) ==
    LET halfX  == roomSizeY \div 2
        halfY  == roomSizeX \div 2
        startX == max(0, ax - halfX)
        endX   == min(H - 1, ax + halfX)
        startY == max(0, ay - halfY)
        endY   == min(W - 1, ay + halfY)
    IN  { <<x, y>> : x \in startX .. endX, y \in startY .. endY }

\* the cells written by the room loops of lines 104-114
RoomCells(ax, ay, roomSizeX, roomSizeY) ==
    LET halfX  == roomSizeX \div 2
        halfY  == roomSizeY \div 2
        startX == max(0, ax - halfX)
        endX   == min(H - 1, ax + halfX)
        startY == max(0, ay - halfY)
        endY   == min(W - 1, ay + halfY)
    IN  { <<x, y>> : x \in startX .. endX, y \in startY .. endY }

\* carving by clearing: newMap[x][y] = 0 for every (x, y) of S
SetZeros(m, S) ==
    [x \in Rows |-> [y \in Cols |-> IF <<x, y>> \in S THEN 0 ELSE m[x][y]]]

\* newMap[x][y] = 1 for every (x, y) of S
SetOnes(m, S) ==
    [x \in Rows |-> [y \in Cols |-> IF <<x, y>> \in S THEN 1 ELSE m[x][y]]]

\* Map& newMap = currentMap: newMap names the caller's map
newMapIsAlias == FALSE

\* Map newMap = currentMap (line 86): newMap is a copy, not another name of
\* the caller's map
newMapIsCopy == TRUE

\* the ramps declared static: they keep the value of the previous call
RampAtEntryKept(old, base) == old

\* the two ramps at the entry of drunkAgent (lines 93-94)
RampAtEntry(old, base) == base

\* = for +=
RampUpAssign(p, inc) == inc

\* += probIncreaseRoom / += probIncreaseChange after a failed roll
RampUp(p, inc) == p + inc

\* the direction declared outside the walk loop: a walk starts with the
\* direction the previous walk ended with
WalkDirectionsInherited(d) == {d}

\* the directions the walk can start with (line 97), d the direction the
\* previous walk ended with
WalkDirections(d) == distDirection

\* a bounce that turns the agent round
BounceReflected(d) == { CASE d = 0 -> 1 [] d = 1 -> 0 [] d = 2 -> 3 [] d = 3 -> 2 }

\* the directions the agent can take after a bounce (line 139), d the
\* direction it bounced with
BounceDirections(d) == distDirection

\* the bounds test with <= for <
CanMoveOffByOne(nextX, nextY) ==
    nextX >= 0 /\ nextX <= H /\ nextY >= 0 /\ nextY <= W

\* the bounds test of line 135
CanMove(nextX, nextY) == nextX >= 0 /\ nextX < H /\ nextY >= 0 /\ nextY < W

\* a walk loop that tests after its body: the body runs once when J = 0
WalkLoopTestedAfter(w, J) == w < J \/ w = 0

\* the test of the walk loop, walk < J (line 96)
WalkLoop(w, J) == w < J

\* the test of the step loop, step < I (line 98)
StepLoop(s, I) == s < I

\* a step that bounced is taken again
NextStepRetry(s, bounced) == IF bounced THEN s ELSE s + 1

\* ++step (line 98), run after every step whether it moved or bounced
NextStep(s, bounced) == s + 1

\* the loop body without its printMap call
NextPassNoPrint(p) ==
    CASE p = "iter" -> "ca_call"
      [] p = "ca"   -> "da_call"
      [] p = "da"   -> "iter"

\* the two passes called in the other order
NextPassSwapped(p) ==
    CASE p = "iter" -> "da_call"
      [] p = "da"   -> "ca_call"
      [] p = "ca"   -> "print"

\* the order of main's loop body (lines 211-217): what follows the loop head,
\* cellularAutomata and drunkAgent
NextPass(p) ==
    CASE p = "iter" -> "ca_call"
      [] p = "ca"   -> "da_call"
      [] p = "da"   -> "print"

\* the parameters of one drunkAgent call
ParamSpace(Js, Is, RXs, RYs, PRs, IRs, PCs, ICs) ==
    [J : Js, I : Is, roomSizeX : RXs, roomSizeY : RYs,
     probGenerateRoom : PRs, probIncreaseRoom : IRs,
     probChangeDirection : PCs, probIncreaseChange : ICs]

NoParams == [J |-> 0, I |-> 0, roomSizeX |-> 0, roomSizeY |-> 0,
             probGenerateRoom |-> 0, probIncreaseRoom |-> 0,
             probChangeDirection |-> 0, probIncreaseChange |-> 0]

VARIABLES
    variant,            \* which of the two programs of the file runs
    myMap,              \* main's map; currentMap inside the two passes
    agentX, agentY,     \* drunkAgentX / drunkAgentY, passed by reference
    iteration,          \* main's loop counter
    pc,                 \* position in main / in the running pass
    ca_R, ca_U,         \* the radius and threshold given to cellularAutomata
    da,                 \* the agent parameters of the current iteration
    newMap,             \* the local copy made by the running pass
    result,             \* the value a pass has returned, not yet assigned
    i, j,               \* cellularAutomata's cell loop
    walk, step,         \* drunkAgent's loops
    currentDirection,
    currentProbRoom,
    currentProbChange,
    caCalls, daCalls,   \* history: the calls main has made of each pass
    inMap,              \* history: the map at the entry of the running pass
    event,              \* history: the branch the last action took
    printed,            \* history: the calls of printMap made so far
    cellVisits,         \* history: how often the running cellularAutomata
                        \* call has computed each cell
    stepsDone,          \* history: the steps the running drunkAgent call
                        \* has completed
    visited,            \* history: the cells the agent stood on at the
                        \* start of a step of the running drunkAgent call
    sinceRoom,          \* history: the room rolls failed since the last
                        \* room (or the entry) of the running call
    sinceTurn,          \* history: the direction rolls failed since the
                        \* direction was last redrawn by a roll or a bounce
    caSeed,             \* the seed of cellularAutomata's generator
    firstCall           \* the seed and the result of an earlier call kept
                        \* by a caller that calls cellularAutomata twice

vars == <<H, W, variant, myMap, agentX, agentY, iteration, pc, ca_R, ca_U, da,
          newMap, result, i, j, walk, step, currentDirection,
          currentProbRoom, currentProbChange, caCalls, daCalls, inMap, event,
          printed, cellVisits, stepsDone, visited, sinceRoom, sinceTurn,
          caSeed, firstCall>>

mainVars == <<H, W, variant, iteration, ca_R, ca_U, da>>
caLocals == <<i, j, caSeed>>
daLocals == <<walk, step, currentDirection, currentProbRoom, currentProbChange>>
agentPos == <<agentX, agentY>>
calls == <<caCalls, daCalls>>
rampHist == <<sinceRoom, sinceTurn>>
caHist == <<printed, stepsDone, visited, rampHist, firstCall>>
daHist == <<printed, cellVisits, firstCall>>
walkHist == <<stepsDone, visited>>
mainHist == <<cellVisits, stepsDone, visited, rampHist, firstCall>>

NoVisits == [c \in Cells |-> 0]


\* ------------------------------------------------- cellularAutomata: steps
\* entry of cellularAutomata: variant 1 copies the map (line 35), variant 2
\* has no copy (line 258); the generator is seeded from the clock
CACall ==
    /\ pc = "ca_call"
    /\ \E seed \in Seeds : caSeed' = seed
    /\ newMap' = IF variant = 1 THEN myMap ELSE ZeroMap
    /\ inMap' = myMap
    /\ i' = 0
    /\ j' = 0
    /\ pc' = "ca_loop"
    /\ event' = "ca_call"
    /\ caCalls' = caCalls + 1
    /\ cellVisits' = NoVisits
    /\ UNCHANGED <<mainVars, myMap, agentPos, result, daLocals, daCalls, caHist>>

\* one cell of the double loop: count, apply the rule, write
CACell ==
    /\ pc = "ca_loop"
    /\ i < H
    /\ LET v == CellValue(myMap, i, j, ca_R, ca_U, caSeed)
       IN  IF variant = 1
           THEN /\ newMap' = [newMap EXCEPT ![i][j] = v]
                /\ UNCHANGED myMap
           ELSE /\ myMap' = [myMap EXCEPT ![i][j] = v]
                /\ UNCHANGED newMap
    /\ IF j + 1 < W
       THEN /\ j' = j + 1
            /\ i' = i
       ELSE /\ j' = 0
            /\ i' = i + 1
    /\ event' = "ca_cell"
    /\ cellVisits' = [cellVisits EXCEPT ![<<i, j>>] = @ + 1]
    /\ UNCHANGED <<mainVars, pc, agentPos, result, daLocals, inMap, calls,
                   caHist, caSeed>>

\* return newMap (line 59) / return currentMap (line 283)
CAReturn ==
    /\ pc = "ca_loop"
    /\ i >= H
    /\ result' = IF variant = 1 THEN newMap ELSE myMap
    /\ newMap' = ZeroMap
    /\ i' = 0
    /\ j' = 0
    /\ pc' = "ca_assign"
    /\ event' = "ca_return"
    /\ UNCHANGED <<mainVars, myMap, agentPos, daLocals, inMap, calls, caHist,
                   cellVisits, caSeed>>

\* myMap = cellularAutomata(...) in main
CAAssign ==
    /\ pc = "ca_assign"
    /\ myMap' = result
    /\ result' = ZeroMap
    /\ pc' = NextPass("ca")
    /\ event' = "ca_assign"
    /\ caSeed' = 0
    /\ UNCHANGED <<mainVars, agentPos, newMap, i, j, daLocals, inMap, calls,
                   caHist, cellVisits>>

\* ------------------------------------------------------- drunkAgent: steps
\* entry of drunkAgent: copy the map, set the two ramps to their bases
DACall ==
    /\ pc = "da_call"
    /\ newMap' = myMap
    /\ inMap' = myMap
    /\ currentProbRoom' = RampAtEntry(currentProbRoom, da.probGenerateRoom)
    /\ currentProbChange' = RampAtEntry(currentProbChange, da.probChangeDirection)
    /\ walk' = 0
    /\ step' = 0
    /\ pc' = "da_walk"
    /\ event' = "da_call"
    /\ daCalls' = daCalls + 1
    /\ stepsDone' = 0
    /\ visited' = {}
    /\ sinceRoom' = 0
    /\ sinceTurn' = 0
    /\ UNCHANGED <<mainVars, myMap, agentPos, result, caLocals, caCalls,
                   currentDirection, daHist>>

\* for (walk ...) test succeeded: draw the walk's direction
DAWalk ==
    /\ pc = "da_walk"
    /\ WalkLoop(walk, da.J)
    /\ \E d \in WalkDirections(currentDirection) : currentDirection' = d
    /\ step' = 0
    /\ pc' = "da_step"
    /\ event' = "walk"
    /\ UNCHANGED <<mainVars, myMap, agentPos, newMap, result, caLocals, walk,
                   currentProbRoom, currentProbChange, inMap, calls, daHist,
                   walkHist, rampHist>>

\* for (step ...) test succeeded: mark the agent's cell
DAMark ==
    /\ pc = "da_step"
    /\ StepLoop(step, da.I)
    /\ newMap' = SetOnes(newMap, {<<agentX, agentY>>})
    /\ myMap' = IF newMapIsCopy THEN myMap ELSE newMap'
    /\ pc' = "da_room"
    /\ event' = "mark"
    /\ visited' = visited \cup {<<agentX, agentY>>}
    /\ UNCHANGED <<mainVars, agentPos, result, caLocals, daLocals, inMap, calls,
                   daHist, stepsDone, rampHist>>

\* the room roll
DARoom ==
    /\ pc = "da_room"
    /\ \E roll \in distProb :
         IF roll < currentProbRoom
         THEN /\ newMap' = SetOnes(newMap, RoomCells(agentX, agentY,
                                                     da.roomSizeX, da.roomSizeY))
              /\ currentProbRoom' = da.probGenerateRoom
              /\ event' = "room"
              /\ sinceRoom' = 0
         ELSE /\ currentProbRoom' = RampUp(currentProbRoom, da.probIncreaseRoom)
              /\ event' = "noroom"
              /\ sinceRoom' = sinceRoom + 1
              /\ UNCHANGED newMap
    /\ myMap' = IF newMapIsCopy THEN myMap ELSE newMap'
    /\ pc' = "da_change"
    /\ UNCHANGED <<mainVars, agentPos, result, caLocals, walk, step,
                   currentDirection, currentProbChange, inMap, calls, daHist,
                   walkHist, sinceTurn>>

\* the direction-change roll
DAChange ==
    /\ pc = "da_change"
    /\ \E roll \in distProb :
         IF roll < currentProbChange
         THEN /\ \E d \in distDirection : currentDirection' = d
              /\ currentProbChange' = da.probChangeDirection
              /\ event' = "change"
              /\ sinceTurn' = 0
         ELSE /\ currentProbChange' = RampUp(currentProbChange, da.probIncreaseChange)
              /\ event' = "nochange"
              /\ sinceTurn' = sinceTurn + 1
              /\ UNCHANGED currentDirection
    /\ pc' = "da_move"
    /\ UNCHANGED <<mainVars, myMap, agentPos, newMap, result, caLocals, walk,
                   step, currentProbRoom, inMap, calls, daHist, walkHist,
                   sinceRoom>>

\* compute the next position, move or bounce, then ++step
DAMove ==
    /\ pc = "da_move"
    /\ LET dx == directions[currentDirection][1]
           dy == directions[currentDirection][2]
           nextX == agentX + dx
           nextY == agentY + dy
       IN  IF CanMove(nextX, nextY)
           THEN /\ agentX' = nextX
                /\ agentY' = nextY
                /\ event' = "moved"
                /\ UNCHANGED <<currentDirection, currentProbChange, sinceTurn>>
           ELSE /\ \E d \in BounceDirections(currentDirection) :
                      currentDirection' = d
                /\ currentProbChange' = da.probChangeDirection
                /\ event' = "bounce"
                /\ sinceTurn' = 0
                /\ UNCHANGED agentPos
    /\ step' = NextStep(step, event' = "bounce")
    /\ stepsDone' = stepsDone + 1
    /\ pc' = "da_step"
    /\ UNCHANGED <<mainVars, myMap, newMap, result, caLocals, walk,
                   currentProbRoom, inMap, calls, daHist, visited, sinceRoom>>

\* for (step ...) test failed: the walk is over, ++walk
DAWalkEnd ==
    /\ pc = "da_step"
    /\ ~StepLoop(step, da.I)
    /\ walk' = walk + 1
    /\ step' = 0
    /\ pc' = "da_walk"
    /\ event' = "walk_end"
    /\ UNCHANGED <<mainVars, myMap, agentPos, newMap, result, caLocals,
                   currentDirection, currentProbRoom, currentProbChange, inMap,
                   calls, daHist, walkHist, rampHist>>

\* for (walk ...) test failed: return newMap; the ramps and the direction
\* keep their last values, which no later call reads before writing them
DAReturn ==
    /\ pc = "da_walk"
    /\ ~WalkLoop(walk, da.J)
    /\ result' = newMap
    /\ newMap' = ZeroMap
    /\ pc' = "da_assign"
    /\ event' = "da_return"
    /\ UNCHANGED <<mainVars, myMap, agentPos, caLocals, daLocals, inMap, calls,
                   daHist, walkHist, rampHist>>

\* myMap = drunkAgent(...) in main; the history of the call ends with it
DAAssign ==
    /\ pc = "da_assign"
    /\ myMap' = result
    /\ result' = ZeroMap
    /\ pc' = NextPass("da")
    /\ event' = "da_assign"
    /\ stepsDone' = 0
    /\ visited' = {}
    /\ sinceRoom' = 0
    /\ sinceTurn' = 0
    /\ UNCHANGED <<mainVars, agentPos, newMap, caLocals, daLocals, inMap, calls,
                   daHist>>


\* ------------------------------------------------------------------- main
\* the ranges main (variant 1) draws the agent parameters from, scaled
distJ == 1 .. MaxJ
distI == 1 .. MaxI
distRoomX == 1 .. MaxRoom
distRoomY == 1 .. MaxRoom
distProbBase == {1}
distProbInc == {1}

DrawnParams == ParamSpace(distJ, distI, distRoomX, distRoomY,
                          distProbBase, distProbInc, distProbBase, distProbInc)

\* the fixed agent parameters of main (variant 2), scaled
da_fixed == [J |-> MaxJ, I |-> MaxI, roomSizeX |-> MaxRoom, roomSizeY |-> 1,
             probGenerateRoom |-> 1, probIncreaseRoom |-> 1,
             probChangeDirection |-> 1, probIncreaseChange |-> 1]

\* int ca_R = 1 in main
mainRadius == 1

\* double ca_U = 0.5 in main
mainThreshold == [num |-> 1, den |-> 2]

\* the loop head of main: draw this iteration's parameters, or finish
MainIter ==
    /\ pc = "iter"
    /\ iteration < numIterations
    /\ IF variant = 1
       THEN \E p \in DrawnParams : da' = p
       ELSE UNCHANGED da
    /\ pc' = NextPass("iter")
    /\ event' = "iter"
    /\ UNCHANGED <<H, W, variant, iteration, ca_R, ca_U, myMap, agentPos,
                   newMap, result, caLocals, daLocals, inMap, calls, printed,
                   mainHist>>

\* printMap(myMap), ++iteration
MainPrint ==
    /\ pc = "print"
    /\ iteration' = iteration + 1
    /\ pc' = "iter"
    /\ event' = "print"
    /\ printed' = printed + 1
    /\ UNCHANGED <<H, W, variant, ca_R, ca_U, da, myMap, agentPos,
                   newMap, result, caLocals, daLocals, inMap, calls, mainHist>>

MainDone ==
    /\ pc = "iter"
    /\ iteration >= numIterations
    /\ pc' = "done"
    /\ event' = "done"
    /\ UNCHANGED <<mainVars, myMap, agentPos, newMap, result, caLocals,
                   daLocals, inMap, calls, printed, mainHist>>

\* the locals of the two passes before any call
InitLocals ==
    /\ newMap = ZeroMap
    /\ result = ZeroMap
    /\ i = 0
    /\ j = 0
    /\ walk = 0
    /\ step = 0
    /\ currentDirection = 0
    /\ currentProbRoom = 0
    /\ currentProbChange = 0
    /\ caCalls = 0
    /\ daCalls = 0
    /\ event = "init"
    /\ cellVisits = NoVisits
    /\ stepsDone = 0
    /\ visited = {}
    /\ sinceRoom = 0
    /\ sinceTurn = 0
    /\ caSeed = 0
    /\ firstCall = <<>>

\* main up to its loop: a random 0/1 map, the agent in the middle, the
\* initial map printed (line 179)
Init ==
    /\ variant \in {1, 2}
    /\ H = mapRows
    /\ W = mapCols
    /\ myMap \in Map
    /\ inMap = myMap
    /\ agentX = mapRows \div 2
    /\ agentY = mapCols \div 2
    /\ iteration = 0
    /\ ca_R = mainRadius
    /\ ca_U = mainThreshold
    /\ da = IF variant = 1 THEN NoParams ELSE da_fixed
    /\ pc = "iter"
    /\ printed = 1
    /\ InitLocals

CANext == CACall \/ CACell \/ CAReturn \/ CAAssign

DANext == DACall \/ DAWalk \/ DAMark \/ DARoom \/ DAChange \/ DAMove
          \/ DAWalkEnd \/ DAReturn \/ DAAssign

Next == MainIter \/ CANext \/ DANext \/ MainPrint \/ MainDone

Spec == Init /\ [][Next]_vars

\* ---------------------------------------------- the passes called on their own
\* the thresholds cellularAutomata is called with: 0, 1/3, 1/2 and 1
Thresholds == { [num |-> 0, den |-> 1], [num |-> 1, den |-> 3],
                [num |-> 1, den |-> 2], [num |-> 1, den |-> 1] }

\* cellularAutomata on any map of any size up to mapRows x mapCols, any
\* radius up to MaxR and any of the thresholds
InitCA ==
    /\ variant \in {1, 2}
    /\ H \in 1 .. mapRows
    /\ W \in 1 .. mapCols
    /\ myMap \in Map
    /\ inMap = myMap
    /\ agentX = 0
    /\ agentY = 0
    /\ iteration = 0
    /\ ca_R \in 0 .. MaxR
    /\ ca_U \in Thresholds
    /\ da = NoParams
    /\ pc = "ca_call"
    /\ printed = 0
    /\ InitLocals

SpecCA == InitCA /\ [][CANext]_vars

\* a caller that has one result of cellularAutomata keeps it and calls the
\* function again with a grid equal to the first input and the same R and U
CAAgain ==
    /\ pc = "ca_assign"
    /\ firstCall = <<>>
    /\ firstCall' = <<caSeed, result>>
    /\ myMap' = inMap
    /\ pc' = "ca_call"
    /\ event' = "ca_again"
    /\ UNCHANGED <<mainVars, agentPos, newMap, result, caLocals, daLocals,
                   inMap, calls, printed, cellVisits, stepsDone, visited,
                   rampHist>>

SpecPure == InitCA /\ [][CANext \/ CAAgain]_vars

\* the maps drunkAgent is called on: it never reads a cell, so two suffice
DAMaps == { ZeroMap, [x \in Rows |-> [y \in Cols |-> (x + y + 1) % 2]] }

\* the <<base, increment>> pairs drunkAgent is called with
RampInputs == { <<0, 1>>, <<1, 0>>, <<1, 1>>, <<ProbDen, 1>> }

\* the parameters drunkAgent is called with
DAParams ==
    { [J |-> a, I |-> b, roomSizeX |-> rx, roomSizeY |-> ry,
       probGenerateRoom |-> pr[1], probIncreaseRoom |-> pr[2],
       probChangeDirection |-> pd[1], probIncreaseChange |-> pd[2]] :
      a \in 0 .. MaxJ, b \in 0 .. MaxI,
      rx \in {0, MaxRoom}, ry \in {0, MaxRoom},
      pr \in RampInputs, pd \in RampInputs }

\* drunkAgent on a map of any size up to mapRows x mapCols, from any position
InitDA ==
    /\ variant = 1
    /\ H \in 1 .. mapRows
    /\ W \in 1 .. mapCols
    /\ myMap \in DAMaps
    /\ inMap = myMap
    /\ agentX \in Rows
    /\ agentY \in Cols
    /\ iteration = 0
    /\ ca_R = mainRadius
    /\ ca_U = mainThreshold
    /\ da \in DAParams
    /\ pc = "da_call"
    /\ printed = 0
    /\ InitLocals

SpecDA == InitDA /\ [][DANext]_vars

\* the room sizes of the example run: up to a room wider than the grid
ExampleRooms == 0 .. 5

\* the parameters of the example run: one walk of one step, a room at once
ExampleParams ==
    ParamSpace({1}, {1}, ExampleRooms, ExampleRooms, {ProbDen}, {0, 1},
               {0, 1, ProbDen}, {0, 1})

\* cellularAutomata with R = 1 and U = 0.5 on the 4 x 4 map of zeros, then
\* drunkAgent with J = 1 and I = 1 from (2, 2) on the map returned
InitExample ==
    /\ variant \in {1, 2}
    /\ H = 4
    /\ W = 4
    /\ myMap = ZeroMap
    /\ inMap = myMap
    /\ agentX = 2
    /\ agentY = 2
    /\ iteration = 0
    /\ ca_R = mainRadius
    /\ ca_U = mainThreshold
    /\ da \in ExampleParams
    /\ pc = "ca_call"
    /\ printed = 0
    /\ InitLocals

SpecExample == InitExample /\ [][CANext \/ DANext]_vars

\* ================================================================== claims
InDA == pc \in {"da_walk", "da_step", "da_room", "da_change", "da_move"}

\* the map cellularAutomata writes its output cells to
CAOut == IF variant = 1 THEN newMap ELSE myMap

\* cell c was written earlier in the running cellularAutomata call
Written(c) == c[1] < i \/ (c[1] = i /\ c[2] < j)

\* the number of in-bounds cells of the window of radius R around (x, y)
\* that are 1 in map m
OnesAround(m, x, y, R) ==
    Cardinality({ c \in Cells : /\ c[1] >= x - R /\ c[1] <= x + R
                                /\ c[2] >= y - R /\ c[2] <= y + R
                                /\ m[c[1]][c[2]] = 1 })

\* the rule of the claim: ones / (2R+1)^2 > U
RuleValue(m, x, y) ==
    IF OnesAround(m, x, y, ca_R) * ca_U.den
         > ca_U.num * (2 * ca_R + 1) * (2 * ca_R + 1)
    THEN 1 ELSE 0

\* C1: cellularAutomata is a synchronous update, in both definitions: every
\* cell written so far in the running call holds the rule's value on the map
\* as it was when the call started, never on cells the call has rewritten.
C1_Synchronous ==
    pc = "ca_loop" =>
        \A c \in Cells :
            Written(c) => CAOut[c[1]][c[2]] = RuleValue(inMap, c[1], c[2])

\* C2: the definition of lines 34-60 returns, for every cell (x, y), 1
\* exactly when the number of ones among the in-bounds cells of the window
\* of the input map, divided by the fixed area (2R+1)^2, is strictly greater
\* than U, and 0 otherwise (equality gives 0; borders keep the full area).
C2_RatioRule ==
    (pc = "ca_assign" /\ variant = 1) =>
        \A x \in Rows, y \in Cols :
            /\ result[x][y] \in {0, 1}
            /\ result[x][y] = 1 <=>
                 OnesAround(inMap, x, y, ca_R) * ca_U.den
                   > ca_U.num * ((2 * ca_R + 1) * (2 * ca_R + 1))

\* a returned map with a corner cell whose ratio is exactly U (3/9 = 1/3),
\* left 0, next to a cell above the threshold, set to 1
C2_Witness ==
    /\ pc = "ca_assign"
    /\ variant = 1
    /\ ca_R = 1
    /\ H >= 2
    /\ W >= 2
    /\ OnesAround(inMap, 0, 0, 1) = 3
    /\ OnesAround(inMap, 0, 0, 1) * ca_U.den = ca_U.num * 9
    /\ result[0][0] = 0
    /\ \E x \in Rows, y \in Cols : result[x][y] = 1

\* C3: the agent stays inside the grid, and every index the next step reads
\* or writes (the position mark, the room cells, the neighbour reads and the
\* output cell of cellularAutomata) is inside [0,H) x [0,W).
C3_Bounds ==
    /\ agentX >= 0 /\ agentX < H
    /\ agentY >= 0 /\ agentY < W
    /\ pc = "da_room" =>
         \A c \in RoomCells(agentX, agentY, da.roomSizeX, da.roomSizeY) :
             c[1] >= 0 /\ c[1] < H /\ c[2] >= 0 /\ c[2] < W
    /\ (pc = "ca_loop" /\ i < H) =>
         /\ j >= 0 /\ j < W /\ i >= 0
         /\ \A c \in ReadCells(i, j, ca_R) :
                c[1] >= 0 /\ c[1] < H /\ c[2] >= 0 /\ c[2] < W

\* in the last iteration the agent has just bounced in a corner, with a room
\* that would reach over both edges
C3_Witness ==
    /\ iteration = numIterations - 1
    /\ event = "bounce"
    /\ agentX = H - 1
    /\ agentY = W - 1
    /\ da.roomSizeX \div 2 >= 1
    /\ da.roomSizeY \div 2 >= 1


\* the unit offset of direction d, as the claims name the four directions:
\* 0 up (x - 1), 1 down (x + 1), 2 left (y - 1), 3 right (y + 1)
OffsetX(d) == IF d = 0 THEN 0 - 1 ELSE IF d = 1 THEN 1 ELSE 0
OffsetY(d) == IF d = 2 THEN 0 - 1 ELSE IF d = 3 THEN 1 ELSE 0

\* C4: within one drunkAgent invocation with non-negative increments a ramp
\* never decreases except when its trigger fires; a failed roll adds exactly
\* the increment; right after a trigger (room generated; direction roll
\* succeeded or border bounce) the ramp equals its base; and a ramp is never
\* below its base.
C4_RampStep ==
    (InDA /\ InDA') =>
        /\ event' # "room" => currentProbRoom' >= currentProbRoom
        /\ event' \notin {"change", "bounce"} =>
               currentProbChange' >= currentProbChange
        /\ event' = "noroom" =>
               currentProbRoom' = currentProbRoom + da.probIncreaseRoom
        /\ event' = "nochange" =>
               currentProbChange' = currentProbChange + da.probIncreaseChange
        /\ event' = "room" => currentProbRoom' = da.probGenerateRoom
        /\ event' \in {"change", "bounce"} =>
               currentProbChange' = da.probChangeDirection
        /\ currentProbRoom' >= da.probGenerateRoom
        /\ currentProbChange' >= da.probChangeDirection

\* C4: every step taken inside one drunkAgent invocation keeps the ramps
\* monotone between triggers, at their base right after a trigger, and
\* never below their base.
C4_RampMonotone == [][C4_RampStep]_vars

\* the room ramp has climbed twice and a bounce has just reset the
\* direction ramp to its base
C4_Witness ==
    /\ event = "bounce"
    /\ da.probIncreaseRoom > 0
    /\ da.probIncreaseChange > 0
    /\ currentProbRoom = da.probGenerateRoom + 2 * da.probIncreaseRoom
    /\ currentProbChange = da.probChangeDirection
    /\ step >= 2

\* the rectangle of the claim, cut to the grid
ClaimedRoom ==
    { c \in Cells : /\ c[1] >= agentX - (da.roomSizeX \div 2)
                    /\ c[1] <= agentX + (da.roomSizeX \div 2)
                    /\ c[2] >= agentY - (da.roomSizeY \div 2)
                    /\ c[2] <= agentY + (da.roomSizeY \div 2) }

\* C5: when the room roll succeeds with the agent at (x, y), the cells of
\* [x - roomSizeX/2, x + roomSizeX/2] x [y - roomSizeY/2, y + roomSizeY/2]
\* that lie in the grid become 1, every other cell keeps its value, and the
\* map keeps its shape (nothing is written outside the grid).
C5_RoomStep ==
    (pc = "da_room" /\ event' = "room") =>
        /\ DOMAIN newMap' = Rows
        /\ \A x \in Rows :
             /\ DOMAIN newMap'[x] = Cols
             /\ \A y \in Cols :
                  newMap'[x][y] = IF <<x, y>> \in ClaimedRoom
                                  THEN 1 ELSE newMap[x][y]

\* C5: every successful room roll carves exactly the claimed rectangle cut
\* to the grid.
C5_RoomCarving == [][C5_RoomStep]_vars

\* a room carved in the corner (0, 0) of a 2 x 3 map of zeros, one row high
\* and cut to two of its three columns
C5_Witness ==
    /\ pc = "da_change"
    /\ event = "room"
    /\ H = 2 /\ W = 3
    /\ agentX = 0 /\ agentY = 0
    /\ da.roomSizeX \div 2 = 0
    /\ da.roomSizeY \div 2 = 1
    /\ inMap = ZeroMap
    /\ newMap = [x \in Rows |-> [y \in Cols |->
                    IF x = 0 /\ y <= 1 THEN 1 ELSE 0]]

\* the candidate position of the running step
CandX == agentX + OffsetX(currentDirection)
CandY == agentY + OffsetY(currentDirection)
CandInside == <<CandX, CandY>> \in Cells

\* C6: in every step, a candidate position inside the grid is moved to; a
\* candidate outside leaves the position unchanged, resets currentProbChange
\* to probChangeDirection, and the direction is redrawn from all four
\* directions (each one can follow, the one bounced with included).
C6_MoveStep ==
    pc = "da_move" =>
        /\ CandInside => (agentX' = CandX /\ agentY' = CandY)
        /\ ~CandInside =>
             /\ agentX' = agentX
             /\ agentY' = agentY
             /\ currentProbChange' = da.probChangeDirection
             /\ currentDirection' \in 0 .. 3
             /\ \A d \in 0 .. 3 : ENABLED (DAMove /\ currentDirection' = d)

\* C6: every move step either moves to the in-grid candidate or bounces:
\* position kept, direction redrawn from all four, currentProbChange reset.
C6_Bounce == [][C6_MoveStep]_vars

\* the agent has bounced off the top edge with a ramped direction
\* probability and kept the direction it bounced with
C6_Witness ==
    /\ event = "bounce"
    /\ agentX = 0
    /\ currentDirection = 0
    /\ H >= 2
    /\ da.probChangeDirection = 1
    /\ da.probIncreaseChange = 1
    /\ currentProbChange = 1
    /\ step >= 2


\* C7: the agent position is changed by nothing but drunkAgent's own steps
\* (not by cellularAutomata, not by main), so each call starts where the
\* previous one ended; and every call starts with the two ramps at that
\* call's bases and draws its first direction from all four directions,
\* whatever the ramps and the direction were when the previous call ended.
C7_Step ==
    /\ ~InDA => (agentX' = agentX /\ agentY' = agentY)
    /\ pc = "da_call" =>
         /\ currentProbRoom' = da.probGenerateRoom
         /\ currentProbChange' = da.probChangeDirection
    /\ (pc = "da_walk" /\ walk = 0 /\ da.J > 0) =>
         \A d \in 0 .. 3 : ENABLED (DAWalk /\ currentDirection' = d)

\* C7: over every step of main, the position persists between drunkAgent
\* calls while the ramps and the direction start afresh in each call.
C7_Persistence == [][C7_Step]_vars

\* the second call of drunkAgent is about to start: the agent has left the
\* middle of the map and the ramps of the first call ended above the bases
\* of the second
C7_Witness ==
    /\ pc = "da_call"
    /\ iteration = 1
    /\ <<agentX, agentY>> # <<mapRows \div 2, mapCols \div 2>>
    /\ currentProbRoom > da.probGenerateRoom
    /\ currentProbChange > da.probChangeDirection
    /\ currentDirection # 0

\* C8: in each iteration main calls cellularAutomata once, assigns its
\* result, then calls drunkAgent once on that map and assigns its result;
\* the agent pass never starts before the smoothing pass of its iteration
\* has returned, no smoothing follows the agent pass within an iteration,
\* and main ends after numIterations calls of each.
C8_PassOrder ==
    /\ pc \in {"iter", "ca_call"} =>
         (caCalls = iteration /\ daCalls = iteration)
    /\ pc \in {"ca_loop", "ca_assign", "da_call"} =>
         (caCalls = iteration + 1 /\ daCalls = iteration
          /\ iteration < numIterations)
    /\ (InDA \/ pc \in {"da_assign", "print"}) =>
         (caCalls = iteration + 1 /\ daCalls = iteration + 1
          /\ iteration < numIterations)
    /\ pc = "done" =>
         (iteration = numIterations /\ caCalls = numIterations
          /\ daCalls = numIterations)
    /\ pc = "da_call" => event = "ca_assign"
    /\ pc = "ca_call" => event = "iter"
    /\ pc = "iter" => event \in {"init", "print"}
    /\ pc = "print" => event = "da_assign"

\* the second program of the file has finished its loop and the last agent
\* pass has carved
C8_Witness ==
    /\ pc = "done"
    /\ variant = 2
    /\ caCalls = numIterations
    /\ daCalls = numIterations
    /\ myMap # ZeroMap

\* C9: each walk starts with a direction drawn from all four directions
\* whatever direction the previous walk ended with, and the agent position
\* and both ramps go from the end of one walk to the start of the next
\* unchanged.
C9_Step ==
    /\ (pc = "da_walk" /\ walk < da.J) =>
         /\ agentX' = agentX /\ agentY' = agentY
         /\ currentProbRoom' = currentProbRoom
         /\ currentProbChange' = currentProbChange
         /\ \A d \in 0 .. 3 : ENABLED (DAWalk /\ currentDirection' = d)
    /\ (pc = "da_step" /\ step >= da.I) =>
         /\ agentX' = agentX /\ agentY' = agentY
         /\ currentProbRoom' = currentProbRoom
         /\ currentProbChange' = currentProbChange

\* C9: every walk start redraws the direction from all four and carries the
\* position and both ramps over.
C9_WalkReset == [][C9_Step]_vars

\* the second walk has just drawn its direction, with both ramps above
\* their bases
C9_Witness ==
    /\ pc = "da_step"
    /\ event = "walk"
    /\ walk = 1
    /\ currentProbRoom > da.probGenerateRoom
    /\ currentProbChange > da.probChangeDirection
    /\ currentDirection = 2

\* C10 as stated: when drunkAgent has returned, the caller's grid argument
\* holds the carved result, equal to the returned grid.
C10_InPlace == pc = "da_assign" => myMap = result

\* C10 amended: drunkAgent carves a copy; all through the call and when it
\* has returned the caller's grid argument still equals the map passed in and
\* the carved map is the returned value; agentX / agentY, passed by
\* reference, hold the final position, next to or on a cell the agent
\* marked.
C10_CopyReturned ==
    /\ (InDA \/ pc = "da_assign") => myMap = inMap
    /\ (pc = "da_assign" /\ da.J > 0 /\ da.I > 0) =>
         \E c \in Cells :
             /\ result[c[1]][c[2]] = 1
             /\ (c[1] - agentX) * (c[1] - agentX)
                  + (c[2] - agentY) * (c[2] - agentY) <= 1

\* drunkAgent has returned a carved map while the caller's map is still all
\* zeros, and the agent has moved
C10_Witness ==
    /\ pc = "da_assign"
    /\ myMap = ZeroMap
    /\ result # ZeroMap
    /\ result[agentX][agentY] = 0

\* C11: zero is a valid no-op. A drunkAgent call with J = 0 or I = 0 takes
\* no step, never changes agentX / agentY and returns a grid equal to its
\* input grid; and with roomSizeX = roomSizeY = 0 a successful room roll
\* changes no cell other than the agent's current cell.
C11_Step ==
    /\ (da.J = 0 \/ da.I = 0) =>
         /\ agentX' = agentX
         /\ agentY' = agentY
         /\ stepsDone' = 0
         /\ pc' = "da_assign" => result' = inMap'
    /\ (pc = "da_room" /\ event' = "room"
          /\ da.roomSizeX = 0 /\ da.roomSizeY = 0) =>
         \A c \in Cells \ {<<agentX, agentY>>} :
             newMap'[c[1]][c[2]] = newMap[c[1]][c[2]]

\* C11: every step of a call with J = 0 or I = 0 leaves the position and
\* the grid alone, and every room of size 0 x 0 stays on the agent's cell.
C11_ZeroNoOp == [][C11_Step]_vars

\* a call with I = 0 and J = MaxJ has gone through all its walks and
\* returned the checkered map it was given
C11_Witness ==
    /\ pc = "da_assign"
    /\ da.I = 0
    /\ da.J = MaxJ
    /\ walk = MaxJ
    /\ inMap # ZeroMap
    /\ result = inMap

\* a room of size 0 x 0 has been carved in a call on the map of zeros: the
\* agent's cell is the only 1
C11_RoomWitness ==
    /\ pc = "da_change"
    /\ event = "room"
    /\ da.roomSizeX = 0 /\ da.roomSizeY = 0
    /\ H * W >= 2
    /\ stepsDone = 0
    /\ \A c \in Cells :
           newMap[c[1]][c[2]] = IF c = <<agentX, agentY>> THEN 1 ELSE 0

\* main is one thread with no blocking call and no suspension point:
\* whenever a step of the program is possible, one is taken
FairSpec == Spec /\ WF_vars(Next)

\* C12: termination with exact counts. Every cellularAutomata call returns,
\* having computed each of the W*H cells exactly once; every drunkAgent call
\* returns after exactly J*I steps, bounces included (at any moment the
\* steps done are walk*I + step); and main reaches its end after exactly
\* numIterations iterations.
C12_Counts ==
    /\ pc = "ca_loop" =>
          \A c \in Cells : cellVisits[c] = IF Written(c) THEN 1 ELSE 0
    /\ pc = "ca_assign" => \A c \in Cells : cellVisits[c] = 1
    /\ pc \in {"da_walk", "da_step"} => stepsDone = walk * da.I + step
    /\ pc \in {"da_room", "da_change", "da_move"} =>
          (stepsDone = walk * da.I + step /\ step < da.I /\ walk < da.J)
    /\ pc = "da_assign" => stepsDone = da.J * da.I
    /\ pc = "done" => iteration = numIterations

C12_Termination ==
    /\ []C12_Counts
    /\ <>(pc = "done")

\* the last drunkAgent call of main has returned after MaxJ * MaxI steps,
\* every one of them a bounce: the agent stood on one cell at the start of
\* every step
C12_Witness ==
    /\ pc = "da_assign"
    /\ iteration = numIterations - 1
    /\ da.J = MaxJ /\ da.I = MaxI
    /\ stepsDone = MaxJ * MaxI
    /\ event = "da_return"
    /\ Cardinality(visited) = 1
    /\ \A c \in Cells : cellVisits[c] = 1

\* the smallest integer not below a / b, for b > 0
CeilDiv(a, b) == IF a <= 0 THEN 0 ELSE (a + b - 1) \div b

\* C13: within one drunkAgent call, a ramp at or above 1.0 always triggers:
\* the roll that meets it succeeds. So with probIncreaseRoom > 0 at most
\* ceil((1 - probGenerateRoom) / probIncreaseRoom) consecutive steps pass
\* without a room, and with probIncreaseChange > 0 at most
\* ceil((1 - probChangeDirection) / probIncreaseChange) consecutive steps
\* pass without the direction being redrawn (by a successful roll or by a
\* bounce, the two events that reset the ramp).
C13_Bound ==
    InDA =>
        /\ da.probIncreaseRoom > 0 =>
              sinceRoom <= CeilDiv(ProbDen - da.probGenerateRoom,
                                   da.probIncreaseRoom)
        /\ da.probIncreaseChange > 0 =>
              sinceTurn <= CeilDiv(ProbDen - da.probChangeDirection,
                                   da.probIncreaseChange)

C13_Step ==
    /\ (pc = "da_room" /\ currentProbRoom >= ProbDen) => event' = "room"
    /\ (pc = "da_change" /\ currentProbChange >= ProbDen) => event' = "change"

C13_PityTimer == []C13_Bound /\ [][C13_Step]_vars

\* the fourth step of a call is about to roll for a room: both rolls have
\* failed in each of the three steps before, as often as the bound allows
\* with base 1/ProbDen and increment 1/ProbDen, and the room ramp has
\* reached 1.0
C13_Witness ==
    /\ pc = "da_room"
    /\ da.probGenerateRoom = 1 /\ da.probIncreaseRoom = 1
    /\ da.probChangeDirection = 1 /\ da.probIncreaseChange = 1
    /\ sinceRoom = CeilDiv(ProbDen - 1, 1)
    /\ sinceTurn = CeilDiv(ProbDen - 1, 1)
    /\ currentProbRoom = ProbDen
    /\ currentProbChange = ProbDen

\* C14: on the 4 x 4 map of zeros with R = 1 and U = 0.5 cellularAutomata
\* returns the map of zeros; drunkAgent with J = 1, I = 1, the agent at
\* (2, 2) and probGenerateRoom = 1.0 then returns a map in which (2, 2) is
\* 1 and exactly the cells of [2 - roomSizeX/2, 2 + roomSizeX/2] x
\* [2 - roomSizeY/2, 2 + roomSizeY/2] that lie in the grid are 1.
C14_Example ==
    /\ pc = "ca_assign" => result = ZeroMap
    /\ pc = "da_call" => myMap = ZeroMap
    /\ pc = "da_assign" =>
         /\ result[2][2] = 1
         /\ \A x \in 0 .. 3, y \in 0 .. 3 :
                result[x][y] = 1 <=>
                    /\ x >= 2 - (da.roomSizeX \div 2)
                    /\ x <= 2 + (da.roomSizeX \div 2)
                    /\ y >= 2 - (da.roomSizeY \div 2)
                    /\ y <= 2 + (da.roomSizeY \div 2)

\* the example has run with rooms of size 2 x 5: the room is cut at the
\* right edge (columns 0 to 3 of the columns 0 to 4 asked for), and the
\* agent has moved off (2, 2)
C14_Witness ==
    /\ pc = "da_assign"
    /\ H = 4 /\ W = 4
    /\ da.roomSizeX = 2 /\ da.roomSizeY = 5
    /\ stepsDone = 1
    /\ visited = {<<2, 2>>}
    /\ <<agentX, agentY>> # <<2, 2>>
    /\ \A x \in 0 .. 3, y \in 0 .. 3 :
           result[x][y] = IF x \in 1 .. 3 THEN 1 ELSE 0

\* C15 as stated: main calls printMap after every pass, once after each
\* cellularAutomata call and once after each drunkAgent call, so that
\* between iterations the calls of printMap made in the loop are as many as
\* the calls of the two passes.
C15_AfterEveryPass ==
    /\ event = "ca_assign" => pc = "print"
    /\ event = "da_assign" => pc = "print"
    /\ pc \in {"iter", "done"} => printed - 1 = caCalls + daCalls

C15_Counts ==
    /\ printed = 1 + iteration
    /\ pc \in {"iter", "done"} => (caCalls = iteration /\ daCalls = iteration)

C15_Step ==
    /\ printed' # printed =>
          (pc = "print" /\ event = "da_assign" /\ myMap' = myMap
           /\ printed' = printed + 1)
    /\ event' = "ca_assign" => (pc' = "da_call" /\ printed' = printed)
    /\ event' = "da_assign" => pc' = "print"

\* C15 amended: main calls printMap once per iteration, on the map
\* drunkAgent returned, after both passes of the iteration (lines 211-217);
\* the map cellularAutomata returned goes to drunkAgent without being
\* printed. With the print of the initial map before the loop, printMap has
\* been called 1 + iteration times.
C15_OncePerIteration == []C15_Counts /\ [][C15_Step]_vars

\* main has ended: numIterations calls of each pass, numIterations calls of
\* printMap in the loop
C15_Witness ==
    /\ pc = "done"
    /\ caCalls + daCalls = 2 * numIterations
    /\ printed - 1 = numIterations

\* map m has exactly H rows of exactly W columns, every cell 0 or 1
WellShaped(m) ==
    /\ DOMAIN m = Rows
    /\ \A x \in Rows :
          /\ DOMAIN m[x] = Cols
          /\ \A y \in Cols : m[x][y] \in {0, 1}

\* C16: at every moment of main's run, after any number of
\* cellularAutomata and drunkAgent calls, main's grid has exactly H rows of
\* exactly W columns and every cell is 0 or 1; so have the copy a pass
\* works on and the grid it returns, and H and W are those of the start.
C16_GridShape ==
    /\ H = mapRows
    /\ W = mapCols
    /\ WellShaped(myMap)
    /\ WellShaped(newMap)
    /\ WellShaped(result)

\* main has ended after numIterations rounds of both passes with a grid
\* that holds both values
C16_Witness ==
    /\ pc = "done"
    /\ caCalls = numIterations
    /\ daCalls = numIterations
    /\ \E c \in Cells : myMap[c[1]][c[2]] = 0
    /\ \E c \in Cells : myMap[c[1]][c[2]] = 1

\* the grid the running drunkAgent call has built so far, or has returned
DAOut == IF pc = "da_assign" THEN result ELSE newMap

\* C17: drunkAgent only ever sets cells to 1. All through a call and in the
\* returned grid, every cell that is 1 in the input grid is 1, every cell
\* that differs from the input grid is 1, and every cell the agent stood on
\* at the start of a step is 1 from the moment that step has marked it.
C17_OnlySetsOnes ==
    (pc \in {"da_room", "da_change", "da_move", "da_step", "da_walk",
             "da_assign"}) =>
        \A c \in Cells :
            /\ inMap[c[1]][c[2]] = 1 => DAOut[c[1]][c[2]] = 1
            /\ DAOut[c[1]][c[2]] # inMap[c[1]][c[2]] => DAOut[c[1]][c[2]] = 1
            /\ c \in visited => DAOut[c[1]][c[2]] = 1

\* a call on the checkered map has returned: the agent stood on two cells
\* or more, the returned grid differs from the input, and the cell the
\* agent moved onto in the last step is 0
C17_Witness ==
    /\ pc = "da_assign"
    /\ inMap # ZeroMap
    /\ result # inMap
    /\ Cardinality(visited) >= 2
    /\ <<agentX, agentY>> \notin visited
    /\ result[agentX][agentY] = 0

\* the four corner cells of the grid
Corners == {<<0, 0>>, <<0, W - 1>>, <<H - 1, 0>>, <<H - 1, W - 1>>}

OnesMap == [x \in Rows |-> [y \in Cols |-> 1]]

\* C18: with main's configuration (R = 1, U = 0.5) on a grid with H >= 2
\* and W >= 2, whatever the input grid, all four corner cells of the grid
\* cellularAutomata returns are 0 (a corner window has at most 4 cells in
\* the grid and 4/9 is not above 0.5); so the grid of ones is not returned
\* unchanged.
C18_CornersZero ==
    (pc = "ca_assign" /\ ca_R = mainRadius /\ ca_U = mainThreshold
       /\ H >= 2 /\ W >= 2) =>
        /\ \A c \in Corners :
              /\ Cardinality(ReadCells(c[1], c[2], ca_R)) <= 4
              /\ result[c[1]][c[2]] = 0
        /\ inMap = OnesMap => result # inMap

\* the 2 x 3 grid of ones has gone through the pass: each corner counted
\* 4 ones and is 0, while the grid returned still has a 1
C18_Witness ==
    /\ pc = "ca_assign"
    /\ ca_R = mainRadius /\ ca_U = mainThreshold
    /\ H = 2 /\ W = 3
    /\ inMap = OnesMap
    /\ \A c \in Corners : OnesAround(inMap, c[1], c[2], 1) = 4
    /\ \A c \in Corners : result[c[1]][c[2]] = 0
    /\ \E c \in Cells : result[c[1]][c[2]] = 1

\* C19: cellularAutomata is a pure function of the grid, R and U. When a
\* second call on a grid equal to the first call's input, with the same R
\* and U, has returned, its grid equals the grid the first call returned,
\* whatever the two seeds of the generators the calls constructed.
C19_Pure ==
    (pc = "ca_assign" /\ firstCall # <<>>) => result = firstCall[2]

\* two calls on the same grid with different seeds have returned the same
\* grid, which differs from the input
C19_Witness ==
    /\ pc = "ca_assign"
    /\ firstCall # <<>>
    /\ firstCall[1] # caSeed
    /\ result = firstCall[2]
    /\ result # inMap
    /\ result # ZeroMap

====
